---- MODULE Spec2Model ----
(***************************************************************************)
(* Model of src/ds310.c, the character-device driver for the ds310 I2C     *)
(* sensor: the bus callbacks probe/remove, run by the driver core, and the *)
(* file operations open/release/read/write, run by user processes.         *)
(*                                                                         *)
(* The kernel services the driver calls (chrdev regions, class, device     *)
(* node, cdev map, SMBus transfers, user copies) are the environment: each *)
(* is modelled by its documented result domain and its effect on the       *)
(* kernel object it manages.                                               *)
(***************************************************************************)
EXTENDS Integers, Sequences, FiniteSets, TLC

(* ---------------------------------------------------------------- bounds *)
NumProcs == 2       \* user processes holding the device file
MaxByte == 1        \* user bytes and register addresses range over 0..MaxByte
MaxLen == 3         \* largest length passed to read()/write()
MaxGen == 1         \* i2c client objects created over a run
MaxRegions == 2     \* dynamic char majors that are free

(* ------------------------------------------------------------- constants *)
DS310_SENSOR_ADDRESS == 119     \* 0x77
ENODEV == 19
ENOMEM == 12
EREMOTEIO == 121
MINORBITS == 20
TopDynamicMajor == 254
AllMinors == 256
BufferSize == 2                 \* sizeof(buffer)
RegisterSize == 1               \* sizeof(register_value)
InitialRegisterValue == 0       \* register_value = 0x00

Procs == 1..NumProcs
UserBytes == 0..MaxByte
Lengths == 0..MaxLen
ReadLengths == 0..(MaxLen - 1)
(* the bus addresses of the clients handed to probe: 0x77 and 0x76 *)
ClientAddrs == {DS310_SENSOR_ADDRESS, DS310_SENSOR_ADDRESS - 1}

Min(a, b) == IF a < b THEN a ELSE b

(* uint8_t conversion of an int *)
ToU8(x) == x % 256

(* MKDEV(ma, mi): (ma << MINORBITS) | mi; a dynamic major is below 2^12  *)
(* and a minor below 2^20, so the value fits the 32-bit dev_t              *)
MKDEV(ma, mi) == ma * (2 ^ MINORBITS) + mi

(* The objects a name pointer can designate: the name array inside the     *)
(* driver's ds310_sensor_id table (what the i2c core hands to probe) and   *)
(* the storage of the string literal DRIVER_NAME.                          *)
NameObjects == {"id_table", "literal"}
DRIVER_NAME == [obj |-> "literal", str |-> "ds310_sensor"]
ds310_sensor_id == [obj |-> "id_table", str |-> "ds310_sensor"]
ProbeIds == {[obj |-> o, str |-> "ds310_sensor"] : o \in NameObjects}

(* id->name != DRIVER_NAME compares the two addresses, not the characters *)
NameDiffers(idname) == idname.obj # DRIVER_NAME.obj

(* a variant of the guard that looks at the name only *)
WrongDevice_NameOnly(addr, idname) == NameDiffers(idname)

(* the guard of probe, line 151 *)
WrongDevice(addr, idname) == (addr # DS310_SENSOR_ADDRESS) \/ NameDiffers(idname)

VARIABLES
    ds310_sensor_client,        \* 0 = NULL, else the generation of the client recorded
    ds310_sensor_device_number, \* dev_t
    ds310_sensor_class,         \* "NULL", "ERR_PTR" or "class"
    register_value,             \* the cached byte
    chrdevs,                    \* kernel: registered char device regions
    classReg,                   \* kernel: the device class exists
    nodeReg,                    \* kernel: the device node exists
    cdevMap,                    \* kernel: the cdev is in the cdev map
    dev,                        \* kernel: the i2c client object [gen, addr, present]
    bound,                      \* driver core: probe returned 0, remove not yet called
    pc,                         \* position of the driver-core thread
    probeRet,                   \* return value of the last probe
    run,                        \* history of the current/last probe or remove call
    fopen,                      \* per process: it holds the device file open
    f_pos,                      \* per process: the file offset (*offset)
    upc,                        \* per process: "idle", or "oops" once the kernel killed it
    last,                       \* history: the file operation that returned last
    selected,                   \* history, per process: the address its last 1-byte write named
    stored                      \* history: who stored last into register_value, and what int

coreVars == <<ds310_sensor_client, ds310_sensor_device_number, ds310_sensor_class,
              chrdevs, classReg, nodeReg, cdevMap, dev, bound, pc, probeRet, run>>

fileVars == <<fopen, f_pos, upc, last, selected, stored>>

vars == <<coreVars, register_value, fileVars>>

NoXfer == [op |-> "none", reg |-> 0, val |-> 0]
NoCall == [proc |-> 0, op |-> "none", length |-> 0, payload |-> <<>>, nc |-> 0,
           ret |-> 0, data |-> <<>>, xfer |-> NoXfer, res |-> 0]
NoSelection == -1
NoStore == [proc |-> 0, res |-> 0]

(* The sensor's register file: a different byte in every register.  What  *)
(* a register write does inside the sensor is not driver state; a write is *)
(* modelled by the transaction it puts on the bus.                         *)
regs == [a \in UserBytes |-> 16 + a]

NoRun == [call |-> "none", addr |-> 0, idname |-> ds310_sensor_id,
          failed |-> "none", major |-> 0, released |-> <<>>]

Init ==
    /\ ds310_sensor_client = 0
    /\ ds310_sensor_device_number = 0
    /\ ds310_sensor_class = "NULL"
    /\ register_value = InitialRegisterValue
    /\ chrdevs = {}
    /\ classReg = FALSE
    /\ nodeReg = FALSE
    /\ cdevMap = FALSE
    /\ dev = [gen |-> 0, addr |-> DS310_SENSOR_ADDRESS, present |-> FALSE]
    /\ bound = FALSE
    /\ pc = "idle"
    /\ probeRet = 0
    /\ run = NoRun
    /\ fopen = [p \in Procs |-> FALSE]
    /\ f_pos = [p \in Procs |-> 0]
    /\ upc = [p \in Procs |-> "idle"]
    /\ last = NoCall
    /\ selected = [p \in Procs |-> NoSelection]
    /\ stored = NoStore

(* ------------------------------------------------------ kernel services *)

(* alloc_chrdev_region(&dev, 0, 1, name): the highest free dynamic major,  *)
(* one minor starting at 0; or a negative error code                       *)
FreeMajors == {m \in (TopDynamicMajor - MaxRegions + 1)..TopDynamicMajor :
                  \A r \in chrdevs : r.major # m}
HighestFree == CHOOSE m \in FreeMajors : \A n \in FreeMajors : n <= m
AllocResults == (IF FreeMajors = {} THEN {} ELSE {0}) \cup {-ENOMEM}

(* unregister_chrdev(major, name) is __unregister_chrdev(major, 0, 256,    *)
(* name): it drops the region whose major, first minor and minor count are *)
(* exactly these                                                           *)
unregister_chrdev(major) ==
    {r \in chrdevs : ~(r.major = major /\ r.baseminor = 0 /\ r.minorct = AllMinors)}

(* class_create: a class pointer, or ERR_PTR(-errno); never NULL *)
ClassCreateResults == (IF classReg THEN {} ELSE {"class"}) \cup {"ERR_PTR"}

(* device_create: a device pointer, or ERR_PTR(-errno); never NULL.       *)
(* It fails on a class that is NULL or an error pointer.                   *)
DeviceCreateResults(class) ==
    (IF class = "class" /\ ~nodeReg THEN {"device"} ELSE {}) \cup {"ERR_PTR"}

(* cdev_add: 0 or a negative error code *)
CdevAddResults == {0, -1, -ENOMEM}

(* device_destroy(class, devt) looks the device up in the class: it        *)
(* dereferences the class pointer, which faults on an error pointer        *)
DeviceDestroyFaults(class) == class = "ERR_PTR"

(* -------------------------------------------- environment: i2c devices *)

(* the i2c core creates a client object for a device at some address *)
DeviceAdd(addr) ==
    /\ pc = "idle" /\ ~dev.present /\ dev.gen < MaxGen
    /\ dev' = [gen |-> dev.gen + 1, addr |-> addr, present |-> TRUE]
    /\ UNCHANGED <<ds310_sensor_client, ds310_sensor_device_number, ds310_sensor_class,
                   chrdevs, classReg, nodeReg, cdevMap, bound, pc, probeRet, run,
                   register_value, fileVars>>

(* an unbound client object is unregistered and freed *)
DeviceDel ==
    /\ pc = "idle" /\ dev.present /\ ~bound
    /\ dev' = [dev EXCEPT !.present = FALSE]
    /\ UNCHANGED <<ds310_sensor_client, ds310_sensor_device_number, ds310_sensor_class,
                   chrdevs, classReg, nodeReg, cdevMap, bound, pc, probeRet, run,
                   register_value, fileVars>>

(* ------------------------------------------------- ds310_sensor_probe *)

(* a variant of the entry of probe that leaves the client unrecorded *)
Probe_entry_NoRecord(idname) ==
    /\ pc = "idle" /\ dev.present /\ ~bound
    /\ run' = [NoRun EXCEPT !.call = "probe", !.addr = dev.addr, !.idname = idname]
    /\ IF WrongDevice(dev.addr, idname)
       THEN /\ probeRet' = -ENODEV
            /\ UNCHANGED pc
       ELSE /\ pc' = "alloc"
            /\ UNCHANGED probeRet
    /\ UNCHANGED <<ds310_sensor_client, ds310_sensor_device_number, ds310_sensor_class,
                   chrdevs, classReg, nodeReg, cdevMap, dev, bound, register_value, fileVars>>

(* lines 144-157: the device check and the recording of the client *)
Probe_entry(idname) ==
    /\ pc = "idle" /\ dev.present /\ ~bound
    /\ run' = [NoRun EXCEPT !.call = "probe", !.addr = dev.addr, !.idname = idname]
    /\ IF WrongDevice(dev.addr, idname)
       THEN /\ probeRet' = -ENODEV
            /\ UNCHANGED <<ds310_sensor_client, pc>>
       ELSE /\ ds310_sensor_client' = dev.gen
            /\ pc' = "alloc"
            /\ UNCHANGED probeRet
    /\ UNCHANGED <<ds310_sensor_device_number, ds310_sensor_class, chrdevs, classReg,
                   nodeReg, cdevMap, dev, bound, register_value, fileVars>>

(* lines 163-167 *)
Probe_alloc_chrdev_region(res) ==
    /\ pc = "alloc"
    /\ res \in AllocResults
    /\   IF res < 0
         THEN /\ pc' = "DEVICE_NUMBER_ERROR"
              /\ run' = [run EXCEPT !.failed = "number"]
              /\ UNCHANGED <<chrdevs, ds310_sensor_device_number>>
         ELSE /\ chrdevs' = chrdevs \cup
                    {[major |-> HighestFree, baseminor |-> 0, minorct |-> 1]}
              /\ ds310_sensor_device_number' = MKDEV(HighestFree, 0)
              /\ run' = [run EXCEPT !.major = HighestFree]
              /\ pc' = "class"
    /\ UNCHANGED <<ds310_sensor_client, ds310_sensor_class, classReg, nodeReg, cdevMap,
                   dev, bound, probeRet, register_value, fileVars>>

(* lines 170-174 *)
Probe_class_create(res) ==
    /\ pc = "class"
    /\ res \in ClassCreateResults
    /\   /\ ds310_sensor_class' = res
         /\ classReg' = (classReg \/ res = "class")
         /\ run' = IF res = "class" THEN run ELSE [run EXCEPT !.failed = "class"]
         /\ pc' = IF res = "NULL" THEN "DEVICE_CLASS_ERROR" ELSE "device"
    /\ UNCHANGED <<ds310_sensor_client, ds310_sensor_device_number, chrdevs, nodeReg,
                   cdevMap, dev, bound, probeRet, register_value, fileVars>>

(* lines 177-181 *)
Probe_device_create(res) ==
    /\ pc = "device"
    /\ res \in DeviceCreateResults(ds310_sensor_class)
    /\   /\ nodeReg' = (nodeReg \/ res = "device")
         /\ run' = IF res = "device" \/ run.failed # "none"
                   THEN run ELSE [run EXCEPT !.failed = "node"]
         /\ pc' = IF res = "NULL" THEN "DEVICE_FILE_ERROR" ELSE "cdev"
    /\ UNCHANGED <<ds310_sensor_client, ds310_sensor_device_number, ds310_sensor_class,
                   chrdevs, classReg, cdevMap, dev, bound, probeRet, register_value, fileVars>>

(* lines 184-193: cdev_init, cdev_add and the successful return *)
Probe_cdev_add(res) ==
    /\ pc = "cdev"
    /\ res \in CdevAddResults
    /\   /\ cdevMap' = (res = 0)
         /\ run' = IF res = 0 \/ run.failed # "none"
                   THEN run ELSE [run EXCEPT !.failed = "cdev"]
         /\ IF res = -1
            THEN /\ pc' = "KERNEL_ERROR"
                 /\ UNCHANGED <<probeRet, bound>>
            ELSE /\ pc' = "idle"
                 /\ probeRet' = 0
                 /\ bound' = TRUE
    /\ UNCHANGED <<ds310_sensor_client, ds310_sensor_device_number, ds310_sensor_class,
                   chrdevs, classReg, nodeReg, dev, register_value, fileVars>>

(* lines 195-196 *)
Probe_KERNEL_ERROR ==
    /\ pc = "KERNEL_ERROR"
    /\ IF DeviceDestroyFaults(ds310_sensor_class)
       THEN pc' = "oops" /\ UNCHANGED <<nodeReg, run>>
       ELSE /\ nodeReg' = FALSE
            /\ run' = [run EXCEPT !.released = Append(@, "node")]
            /\ pc' = "DEVICE_FILE_ERROR"
    /\ UNCHANGED <<ds310_sensor_client, ds310_sensor_device_number, ds310_sensor_class,
                   chrdevs, classReg, cdevMap, dev, bound, probeRet, register_value, fileVars>>

(* lines 197-198 *)
Probe_DEVICE_FILE_ERROR ==
    /\ pc = "DEVICE_FILE_ERROR"
    /\ classReg' = (classReg /\ ds310_sensor_class # "class")
    /\ run' = [run EXCEPT !.released = Append(@, "class")]
    /\ pc' = "DEVICE_CLASS_ERROR"
    /\ UNCHANGED <<ds310_sensor_client, ds310_sensor_device_number, ds310_sensor_class,
                   chrdevs, nodeReg, cdevMap, dev, bound, probeRet, register_value, fileVars>>

(* lines 199-200 *)
Probe_DEVICE_CLASS_ERROR ==
    /\ pc = "DEVICE_CLASS_ERROR"
    /\ chrdevs' = unregister_chrdev(ds310_sensor_device_number)
    /\ run' = [run EXCEPT !.released = Append(@, "number")]
    /\ pc' = "DEVICE_NUMBER_ERROR"
    /\ UNCHANGED <<ds310_sensor_client, ds310_sensor_device_number, ds310_sensor_class,
                   classReg, nodeReg, cdevMap, dev, bound, probeRet, register_value, fileVars>>

(* lines 201-202 *)
Probe_DEVICE_NUMBER_ERROR ==
    /\ pc = "DEVICE_NUMBER_ERROR"
    /\ probeRet' = -1
    /\ pc' = "idle"
    /\ UNCHANGED <<ds310_sensor_client, ds310_sensor_device_number, ds310_sensor_class,
                   chrdevs, classReg, nodeReg, cdevMap, dev, bound, run, register_value, fileVars>>

(* ------------------------------------------------ ds310_sensor_remove *)

(* line 215; the driver core calls remove for a bound client only *)
Remove_cdev_del ==
    /\ pc = "idle" /\ bound
    /\ bound' = FALSE
    /\ cdevMap' = FALSE
    /\ run' = [NoRun EXCEPT !.call = "remove", !.released = <<"cdev">>]
    /\ pc' = "rm_device"
    /\ UNCHANGED <<ds310_sensor_client, ds310_sensor_device_number, ds310_sensor_class,
                   chrdevs, classReg, nodeReg, dev, probeRet, register_value, fileVars>>

(* line 216 *)
Remove_device_destroy ==
    /\ pc = "rm_device"
    /\ IF DeviceDestroyFaults(ds310_sensor_class)
       THEN pc' = "oops" /\ UNCHANGED <<nodeReg, run>>
       ELSE /\ nodeReg' = FALSE
            /\ run' = [run EXCEPT !.released = Append(@, "node")]
            /\ pc' = "rm_class"
    /\ UNCHANGED <<ds310_sensor_client, ds310_sensor_device_number, ds310_sensor_class,
                   chrdevs, classReg, cdevMap, dev, bound, probeRet, register_value, fileVars>>

(* line 217 *)
Remove_class_destroy ==
    /\ pc = "rm_class"
    /\ classReg' = (classReg /\ ds310_sensor_class # "class")
    /\ run' = [run EXCEPT !.released = Append(@, "class")]
    /\ pc' = "rm_number"
    /\ UNCHANGED <<ds310_sensor_client, ds310_sensor_device_number, ds310_sensor_class,
                   chrdevs, nodeReg, cdevMap, dev, bound, probeRet, register_value, fileVars>>

(* lines 218-219; afterwards the core either keeps the client (the driver  *)
(* was unbound) or frees it (the device was unregistered)                  *)
Remove_unregister_chrdev(keep) ==
    /\ pc = "rm_number"
    /\ chrdevs' = unregister_chrdev(ds310_sensor_device_number)
    /\ run' = [run EXCEPT !.released = Append(@, "number"), !.call = "removed"]
    /\ pc' = "idle"
    /\ dev' = [dev EXCEPT !.present = keep]
    /\ UNCHANGED <<ds310_sensor_client, ds310_sensor_device_number, ds310_sensor_class,
                   classReg, nodeReg, cdevMap, bound, probeRet, register_value, fileVars>>


(* ------------------------------------------------------ file operations *)

(* min(length, sizeof(buffer)), line 103 *)
WriteToCopy(length) == Min(length, BufferSize)

(* min(length, sizeof(register_value)), line 81 *)
ReadToCopy(length) == Min(length, RegisterSize)

(* delta = to_copy - not_copied in uint8_t, lines 87 and 124 *)
Delta(to_copy, not_copied) == ToU8(to_copy - not_copied)

(* buffer[2] = {0} filled by copy_from_user, which leaves the last         *)
(* not_copied bytes of the to_copy requested untouched; lines 100, 106     *)
CopyFromUser(payload, to_copy, not_copied) ==
    [i \in 1..BufferSize |-> IF i <= to_copy - not_copied THEN payload[i] ELSE 0]

(* a variant that takes every length of 2 or more for a register write *)
WriteBranch_AtLeastTwo(length) ==
    IF length = 1 THEN "read" ELSE IF length >= 2 THEN "write" ELSE "none"

(* a variant that reads the register on length 2 and writes it on length 1 *)
WriteBranch_Swapped(length) ==
    IF length = 2 THEN "read" ELSE IF length = 1 THEN "write" ELSE "none"

(* the bus transaction chosen by lines 108-121 *)
WriteBranch(length) ==
    IF length = 1 THEN "read" ELSE IF length = 2 THEN "write" ELSE "none"

(* a variant that copies out of a zeroed local instead of the cached byte *)
CopyToUser_Local(value, to_copy, not_copied) == SubSeq(<<0>>, 1, to_copy - not_copied)

(* what copy_to_user delivers of register_value, line 84 *)
CopyToUser(value, to_copy, not_copied) == SubSeq(<<value>>, 1, to_copy - not_copied)

(* a variant that stores 0 when the transfer failed *)
StoredByte_ErrorAsZero(res) == IF res < 0 THEN 0 ELSE ToU8(res)

(* the value line 111 stores: the int result converted to uint8_t *)
StoredByte(res) == ToU8(res)

(* a variant that advances the offset by the bytes transferred *)
NewOffset_Advance(offset, delta) == offset + delta

(* the offset after a read or a write: the handlers never touch *offset *)
NewOffset(offset, delta) == offset

(* what ds310_sensor_client designates when a handler passes it to the bus *)
ClientState ==
    IF ds310_sensor_client = 0 THEN "null"
    ELSE IF ~(dev.present /\ dev.gen = ds310_sensor_client) THEN "freed"
    ELSE IF bound THEN "attached"
    ELSE IF pc \notin {"idle", "oops"} /\ run.call = "probe" THEN "probing"
    ELSE "detached"

(* outcomes of an SMBus transfer through the client: it completes, it      *)
(* fails with a negative error code, and through a NULL or freed client    *)
(* the access is undefined: it may fault, go astray, or appear to work     *)
SmbusOutcomes(cstate) ==
    IF cstate = "null" THEN {"oops"}
    ELSE IF cstate = "freed" THEN {"ok", "err", "stray", "oops"}
    ELSE {"ok", "err"}

(* the int i2c_smbus_read_byte_data returns; a transfer gone astray        *)
(* brings back a byte that is not the sensor's                             *)
SmbusReadResult(out, reg) ==
    IF out = "ok" THEN regs[reg] ELSE IF out = "err" THEN -EREMOTEIO ELSE 255

(* the int i2c_smbus_write_byte_data returns *)
SmbusWriteResult(out) == IF out = "err" THEN -EREMOTEIO ELSE 0

Payloads(length) == [1..WriteToCopy(length) -> UserBytes]

(* the payloads tried: the bytes of a write that selects no transaction    *)
(* are copied and never used, one payload stands for all of them           *)
WritePayloads(length) ==
    IF WriteBranch(length) = "none"
    THEN {[i \in 1..WriteToCopy(length) |-> MaxByte]}
    ELSE Payloads(length)

(* ds310_sensor_open, lines 55-59; the file can be opened while the cdev   *)
(* is in the cdev map                                                      *)
ds310_sensor_open(p) ==
    /\ cdevMap /\ ~fopen[p] /\ upc[p] = "idle"
    /\ fopen' = [fopen EXCEPT ![p] = TRUE]
    /\ f_pos' = [f_pos EXCEPT ![p] = 0]
    /\ last' = [NoCall EXCEPT !.proc = p, !.op = "open"]
    /\ UNCHANGED <<coreVars, register_value, upc, selected, stored>>

(* ds310_sensor_release, lines 65-69 *)
ds310_sensor_release(p) ==
    /\ fopen[p] /\ upc[p] = "idle"
    /\ fopen' = [fopen EXCEPT ![p] = FALSE]
    /\ last' = [NoCall EXCEPT !.proc = p, !.op = "release"]
    /\ UNCHANGED <<coreVars, register_value, f_pos, upc, selected, stored>>

(* ds310_sensor_read, lines 74-90 *)
ds310_sensor_read(p, length, not_copied) ==
    /\ fopen[p] /\ upc[p] = "idle"
    /\ not_copied \in 0..ReadToCopy(length)
    /\ LET to_copy == ReadToCopy(length)
           delta == Delta(to_copy, not_copied)
       IN  /\ last' = [NoCall EXCEPT !.proc = p, !.op = "read", !.length = length,
                                      !.nc = not_copied, !.ret = delta,
                                      !.data = CopyToUser(register_value, to_copy, not_copied)]
           /\ f_pos' = [f_pos EXCEPT ![p] = NewOffset(@, delta)]
    /\ UNCHANGED <<coreVars, register_value, fopen, upc, selected, stored>>

(* ds310_sensor_write, lines 95-126.  The SMBus transfer runs under the     *)
(* adapter lock and the store of line 111 is one byte wide, so the handler *)
(* is one step: what it does to shared state is the transfer and the store *)
ds310_sensor_write(p, length, payload, not_copied, out) ==
    /\ fopen[p] /\ upc[p] = "idle"
    /\ payload \in Payloads(length)
    /\ not_copied \in 0..WriteToCopy(length)
    /\ LET to_copy == WriteToCopy(length)
           buffer == CopyFromUser(payload, to_copy, not_copied)
           branch == WriteBranch(length)
           call == [NoCall EXCEPT !.proc = p, !.op = "write", !.length = length,
                                  !.payload = payload, !.nc = not_copied,
                                  !.ret = Delta(to_copy, not_copied)]
       IN  IF branch = "none"
           THEN /\ out = "ok"
                /\ last' = call
                /\ UNCHANGED <<register_value, fopen, upc, selected, stored>>
           ELSE /\ out \in SmbusOutcomes(ClientState)
                /\ IF out = "oops"
                   THEN /\ upc' = [upc EXCEPT ![p] = "oops"]
                        /\ fopen' = [fopen EXCEPT ![p] = FALSE]
                        /\ UNCHANGED <<register_value, last, selected, stored>>
                   ELSE IF branch = "write"
                   THEN /\ last' = [call EXCEPT
                               !.xfer = [op |-> IF out = "stray" THEN "stray" ELSE "write",
                                         reg |-> buffer[1], val |-> buffer[2]],
                               !.res = SmbusWriteResult(out)]
                        /\ UNCHANGED <<register_value, fopen, upc, selected, stored>>
                   ELSE /\ register_value' = StoredByte(SmbusReadResult(out, buffer[1]))
                        /\ last' = [call EXCEPT
                               !.xfer = [op |-> IF out = "stray" THEN "stray" ELSE "read",
                                         reg |-> buffer[1], val |-> 0],
                               !.res = SmbusReadResult(out, buffer[1])]
                        /\ selected' = [selected EXCEPT ![p] = payload[1]]
                        /\ stored' = [proc |-> p, res |-> SmbusReadResult(out, buffer[1])]
                        /\ UNCHANGED <<fopen, upc>>
    /\ UNCHANGED <<coreVars, f_pos>>

SmbusOutcomeNames == {"ok", "err", "stray", "oops"}

FileNext ==
    \/ \E p \in Procs : ds310_sensor_open(p)
    \/ \E p \in Procs : ds310_sensor_release(p)
    \/ \E p \in Procs, length \in ReadLengths, nc \in 0..RegisterSize :
          ds310_sensor_read(p, length, nc)
    \/ \E p \in Procs, length \in Lengths :
          \E payload \in WritePayloads(length), nc \in 0..WriteToCopy(length),
             out \in SmbusOutcomeNames : ds310_sensor_write(p, length, payload, nc, out)

PointerValues == {"NULL", "ERR_PTR", "class", "device"}
ErrorCodes == {0, -1, -ENOMEM}

(* probe and remove under every result the kernel services can give *)
AttachNext ==
    \/ \E a \in ClientAddrs : DeviceAdd(a)
    \/ DeviceDel
    \/ \E i \in ProbeIds : Probe_entry(i)
    \/ \E res \in ErrorCodes : Probe_alloc_chrdev_region(res)
    \/ \E res \in PointerValues : Probe_class_create(res)
    \/ \E res \in PointerValues : Probe_device_create(res)
    \/ \E res \in ErrorCodes : Probe_cdev_add(res)
    \/ Probe_KERNEL_ERROR
    \/ Probe_DEVICE_FILE_ERROR
    \/ Probe_DEVICE_CLASS_ERROR
    \/ Probe_DEVICE_NUMBER_ERROR
    \/ Remove_cdev_del
    \/ Remove_device_destroy
    \/ Remove_class_destroy
    \/ \E keep \in BOOLEAN : Remove_unregister_chrdev(keep)

(* The life cycle of the binding when probe goes past its guard and every  *)
(* kernel service succeeds.  The guard of line 151 lets probe go on only   *)
(* for a name pointer equal to the literal's own address (see C5), so this *)
(* is the only life cycle in which the device file exists and the file     *)
(* operations can be called at all.                                        *)
LifeCycleNext ==
    \/ DeviceAdd(DS310_SENSOR_ADDRESS)
    \/ DeviceDel
    \/ Probe_entry(DRIVER_NAME)
    \/ Probe_alloc_chrdev_region(0)
    \/ Probe_class_create("class")
    \/ Probe_device_create("device")
    \/ Probe_cdev_add(0)
    \/ Remove_cdev_del
    \/ Remove_device_destroy
    \/ Remove_class_destroy
    \/ \E keep \in BOOLEAN : Remove_unregister_chrdev(keep)

Next == AttachNext \/ FileNext

(* everything *)
Spec == Init /\ [][Next]_vars

(* the driver core alone: attach and detach with failing kernel services *)
SpecAttach == Init /\ [][AttachNext]_vars

(* the file operations of user processes over the life cycle of a binding *)
SpecFile == Init /\ [][LifeCycleNext \/ FileNext]_vars

(* ================================================================ claims *)

Registered(devt) == \E r \in chrdevs : MKDEV(r.major, r.baseminor) = devt

(* a file operation returned in this step *)
Returned(op) == last' # last /\ last'.op = op

(* C1: a 1-byte write [a] followed at once by a read of length >= 1 of the *)
(* same process, both with user buffers the kernel can copy, delivers      *)
(* exactly one byte, the one the sensor holds in register a.               *)
C1_WriteThenRead ==
    [][(last.op = "write" /\ last.length = 1 /\ last.nc = 0 /\ Returned("read")
          /\ last'.proc = last.proc /\ last'.length >= 1 /\ last'.nc = 0)
       => last'.data = <<regs[last.payload[1]]>>]_vars

(* C2: a 2-byte write [a, v], its two bytes copied, issues exactly one     *)
(* register write of v to register a and leaves the cached byte as it was. *)
C2_TwoByteWrite ==
    [][(Returned("write") /\ last'.length = 2 /\ last'.nc = 0)
       => /\ last'.xfer = [op |-> "write", reg |-> last'.payload[1],
                           val |-> last'.payload[2]]
          /\ register_value' = register_value]_vars

(* C3: a write whose length is neither 1 nor 2 issues no bus transaction   *)
(* and leaves the cached register byte unchanged.                          *)
C3_WrongLengthRejected ==
    [][(Returned("write") /\ last'.length \notin {1, 2})
       => (last'.xfer = NoXfer /\ register_value' = register_value)]_vars

C3_Witness ==
    /\ last.op = "write" /\ last.length >= 3 /\ last.xfer = NoXfer
    /\ register_value # InitialRegisterValue

(* C4: a write whose length is neither 1 nor 2 returns 0.                  *)
C4_WrongLengthReturnsZero ==
    (last.op = "write" /\ last.length \notin {1, 2}) => last.ret = 0

(* C5: probe for a client at 0x77 whose id name reads "ds310_sensor", with *)
(* no kernel service failing, returns 0 with the client recorded and the   *)
(* device number, class, node and character device registered.             *)
C5_ProbeSucceeds ==
    (pc = "idle" /\ run.call = "probe" /\ run.addr = DS310_SENSOR_ADDRESS
        /\ run.idname.str = "ds310_sensor" /\ run.failed = "none")
    => /\ probeRet = 0
       /\ ds310_sensor_client = dev.gen
       /\ Registered(ds310_sensor_device_number) /\ classReg /\ nodeReg /\ cdevMap

(* C6: when one of the four attach steps fails, probe returns a negative   *)
(* code and nothing the earlier steps acquired is still registered.        *)
C6_FailureUnwinds ==
    (pc = "idle" /\ run.call = "probe" /\ run.failed # "none")
    => /\ probeRet < 0
       /\ \A r \in chrdevs : r.major # run.major
       /\ ~classReg /\ ~nodeReg /\ ~cdevMap

(* C7: remove releases character device, node, class and number in this    *)
(* order, and when it has returned none of them is registered.             *)
C7_RemoveReleasesAll ==
    (pc = "idle" /\ run.call = "removed")
    => /\ run.released = <<"cdev", "node", "class", "number">>
       /\ ~cdevMap /\ ~nodeReg /\ ~classReg
       /\ ~Registered(ds310_sensor_device_number)

(* C8: no bus transaction is issued once remove has run.                   *)
C8_NoBusAfterRemove ==
    [][(last' # last /\ last'.xfer.op # "none") => run.call # "removed"]_vars

(* C9: the cached byte is one for all processes: a read delivers the byte  *)
(* of the 1-byte write that stored last, whichever process issued it.      *)
C9_SharedCache ==
    (last.op = "read" /\ Len(last.data) = 1 /\ stored.proc # 0)
    => last.data[1] = ToU8(stored.res)

(* a process that selected one address reads the value of the address      *)
(* another process selected after it                                       *)
C9_Witness ==
    /\ last.op = "read" /\ Len(last.data) = 1
    /\ stored.proc \notin {0, last.proc}
    /\ selected[last.proc] # NoSelection
    /\ selected[stored.proc] # selected[last.proc]
    /\ last.data[1] = regs[selected[stored.proc]]
    /\ last.data[1] # regs[selected[last.proc]]

(* C10 as stated: a read delivers min(length, 1) bytes of the cached byte  *)
(* and changes no driver state.                                            *)
C10_ReadDeliversMin ==
    [][Returned("read")
       => /\ last'.data = SubSeq(<<register_value>>, 1, Min(last'.length, 1))
          /\ last'.xfer = NoXfer
          /\ register_value' = register_value
          /\ f_pos' = f_pos]_vars

(* C10 amended: a read delivers min(length, 1) bytes less those that       *)
(* copy_to_user could not copy, returns that count, the byte delivered is  *)
(* the cached byte, and no driver state changes: no bus transaction, the   *)
(* cached byte and the offsets stay, so reads that deliver a byte one      *)
(* after the other deliver the same byte.                                  *)
C10_ReadDeliversCopied ==
    [][Returned("read")
       => /\ last'.data = SubSeq(<<register_value>>, 1,
                                 Min(last'.length, 1) - last'.nc)
          /\ last'.ret = Min(last'.length, 1) - last'.nc
          /\ last'.xfer = NoXfer
          /\ register_value' = register_value
          /\ f_pos' = f_pos
          /\ UNCHANGED coreVars
          /\ (last.op = "read" /\ Len(last.data) = 1 /\ Len(last'.data) = 1)
                => last'.data = last.data]_vars

C10_Witness ==
    /\ last.op = "read" /\ last.length >= 2 /\ last.nc = 0
    /\ last.data = <<register_value>> /\ last.ret = 1
    /\ register_value # InitialRegisterValue

(* a call of probe was entered in this step *)
ProbeEntered == pc = "idle" /\ run' # run /\ run'.call = "probe"

(* C11: probe for a client whose address is not 0x77 returns -ENODEV at    *)
(* once: the client handle is not recorded and no device number, class,    *)
(* device node or character device is allocated.                           *)
C11_WrongAddressRejected ==
    [][(ProbeEntered /\ run'.addr # DS310_SENSOR_ADDRESS)
       => /\ probeRet' = -ENODEV
          /\ pc' = "idle"
          /\ UNCHANGED <<ds310_sensor_client, ds310_sensor_device_number,
                         ds310_sensor_class, chrdevs, classReg, nodeReg, cdevMap>>]_vars

(* probe has returned for a client at another address, whatever the name   *)
(* pointer it was handed                                                   *)
C11_Witness ==
    /\ pc = "idle" /\ run.call = "probe" /\ run.addr # DS310_SENSOR_ADDRESS
    /\ ~NameDiffers(run.idname)
    /\ probeRet = -ENODEV
    /\ ds310_sensor_client = 0 /\ chrdevs = {} /\ ~classReg /\ ~nodeReg /\ ~cdevMap

(* a write carried a bus transaction in this step and the transaction      *)
(* returned a negative error code                                          *)
FailedTransfer(length) ==
    Returned("write") /\ last'.length = length /\ last'.xfer.op # "none" /\ last'.res < 0

(* a read of at least one byte, all of it copied, returned in this step    *)
(* right after a 1-byte write whose bus read had failed                    *)
ReadAfterFailedRead ==
    /\ last.op = "write" /\ last.length = 1 /\ last.xfer.op # "none" /\ last.res < 0
    /\ Returned("read") /\ last'.length >= 1 /\ last'.nc = 0

(* C12 as stated: a failed bus transaction is not reported: a 1-byte write *)
(* whose bus read returns e < 0 returns 1 and caches e modulo 256, which   *)
(* the read that follows delivers; a 2-byte write whose bus write fails    *)
(* returns 2.                                                              *)
C12_FailureReturnsLength ==
    [][/\ FailedTransfer(1)
            => (last'.ret = 1 /\ register_value' = 256 + last'.res)
       /\ FailedTransfer(2) => last'.ret = 2
       /\ ReadAfterFailedRead => last'.data = <<256 + last.res>>]_vars

(* C12 amended: a failed bus transaction is not reported: the write        *)
(* returns the count of bytes copied from the user, min(length, 2) less    *)
(* the bytes left uncopied, as it does when the transaction succeeds (so 1 *)
(* and 2 when the copy was complete); the 1-byte write caches e modulo     *)
(* 256, which the read that follows delivers.                              *)
C12_FailureReturnsCopied ==
    [][/\ FailedTransfer(1)
            => (last'.ret = 1 - last'.nc /\ register_value' = 256 + last'.res)
       /\ FailedTransfer(2) => last'.ret = 2 - last'.nc
       /\ ReadAfterFailedRead => last'.data = <<256 + last.res>>]_vars

(* a read has delivered the error code of a failed bus read as a byte      *)
C12_Witness ==
    /\ last.op = "read" /\ last.data = <<256 - EREMOTEIO>>
    /\ stored.res = -EREMOTEIO
    /\ register_value = 256 - EREMOTEIO

(* C13: the transaction of a write is chosen from the requested length     *)
(* alone: when copy_from_user leaves k > 0 bytes uncopied, a write of      *)
(* length 1 still issues its register read and a write of length 2 its     *)
(* register write, with 0 in the place of every byte not copied, and the   *)
(* write returns min(length, 2) - k.                                       *)
C13_LengthChoosesTransfer ==
    [][(Returned("write") /\ last'.length \in {1, 2} /\ last'.nc > 0)
       => /\ last'.xfer.op = (IF last'.length = 1 THEN "read" ELSE "write")
          /\ last'.xfer.reg = (IF last'.nc < last'.length THEN last'.payload[1] ELSE 0)
          /\ last'.xfer.val = 0
          /\ last'.ret = Min(last'.length, 2) - last'.nc]_vars

(* C14: the cached byte starts at 0x00 and only a 1-byte write changes it: *)
(* a read before any 1-byte write has stored delivers 0x00, and open,      *)
(* release, read, 2-byte write, probe and remove leave the cached byte     *)
(* as it was; a remove followed by a new probe does not reset it.          *)
C14_OnlyOneByteWriteStores ==
    [][/\ register_value' # register_value
            => (Returned("write") /\ last'.length = 1)
       /\ (Returned("read") /\ stored.proc = 0 /\ last'.length >= 1 /\ last'.nc = 0)
            => last'.data = <<0>>
       /\ (run' # run /\ run'.call \in {"probe", "remove", "removed"})
            => register_value' = register_value]_vars

(* the driver is bound for the second time, after a remove, and a read     *)
(* delivers the byte a 1-byte write stored                                 *)
C14_Witness ==
    /\ pc = "idle" /\ bound /\ Cardinality(chrdevs) = 2
    /\ stored.proc # 0 /\ register_value # 0
    /\ last.op = "read" /\ last.data = <<register_value>>

(* C15: whenever the character device is registered, or a process holds    *)
(* the device file, the client handle is recorded: probe stores it before  *)
(* it allocates the device number, class, node or character device, so no  *)
(* write reaches the bus with the handle unset.                            *)
C15_ClientRecordedFirst ==
    /\ (cdevMap \/ nodeReg \/ classReg \/ chrdevs # {} \/ \E p \in Procs : fopen[p])
          => ds310_sensor_client # 0
    /\ cdevMap => ds310_sensor_client = dev.gen
    /\ last.xfer.op # "none" => ds310_sensor_client # 0

(* a write has reached the bus through the recorded client while the       *)
(* character device is registered                                          *)
C15_Witness ==
    /\ cdevMap /\ ClientState = "attached"
    /\ last.op = "write" /\ last.xfer.op \in {"read", "write"}
    /\ ds310_sensor_client = dev.gen /\ ds310_sensor_client # 0

====
